---- MODULE Spec2Model ----
(***************************************************************************)
(* Model of src/src/app.py, a Streamlit dashboard over CSV exports.        *)
(*                                                                         *)
(* A file name is modelled as the sequence of its underscore-separated     *)
(* segments (name.split('_')), the ".csv" extension left implicit on the   *)
(* last segment.  The Korean markers of the source are romanised:          *)
(*   jeolgibyeol_fashiontrend  line 35     shoppingtrend  line 52          *)
(*   trenchcoat_attributes     line 38     navershopping  line 54          *)
(*   trenchcoat_gender         line 41     blogposts      line 56          *)
(*   trenchcoat_agegroup       line 44     trenchcoat     lines 216, 258   *)
(* `marker in name` is containment of the marker's segments as a           *)
(* contiguous run of the name's segments.                                  *)
(***************************************************************************)
EXTENDS Integers, Sequences, FiniteSets, TLC

VARIABLES
  data_dir,           \* the *.csv files of DATA_DIR
  content,            \* per file of the directory: "ok", "bad", "notext"
  cache,              \* the st.cache_data entry of load_all_data
  pc,                 \* position of the script run
  main_data,          \* script global, line 80
  special_data,       \* script global, line 80
  files,              \* line 16: the listing glob returned to the call just made
  stored,             \* per element of files: the targets its iteration assigned
  failed,             \* the file whose pd.read_csv raised, <<>> if none
  nreads,             \* pd.read_csv calls made by the last invocation
  selected_keywords,  \* line 88
  shopping_dfs,       \* line 151
  rendered,           \* the st.* outputs of the current run
  error,              \* the exception that ended the current run, "none" if none
  first_result,       \* the first value load_all_data returned in the session
  texts,              \* SpecTfidf: argument of extract_keywords_tfidf
  top_n,              \* SpecTfidf: argument of extract_keywords_tfidf
  tfidf_res,          \* SpecTfidf: its outcome
  trend_ratio,        \* SpecRolling: the ratio column of each keyword's trend table
  full_trend_ma7      \* SpecRolling: the ma7 column of full_trend_df, line 110

vars == <<data_dir, content, cache, pc, main_data, special_data, files, stored,
          failed, nreads, selected_keywords, shopping_dfs, rendered, error,
          first_result, texts, top_n, tfidf_res, trend_ratio, full_trend_ma7>>

dashVars == <<data_dir, content, cache, pc, main_data, special_data, files, stored,
              failed, nreads, selected_keywords, shopping_dfs, rendered, error,
              first_result>>

tfidfVars == <<texts, top_n, tfidf_res>>

rollVars == <<trend_ratio, full_trend_ma7>>

----------------------------------------------------------------------------
(* Bounds *)

MaxFiles == 2

MaxBad == 1

MaxDocs == 3

MaxLen == 8

MaxLen2 == 1

----------------------------------------------------------------------------
(* File names and their classification, load_all_data lines 30-62 *)

MarkerSeasonal == <<"jeolgibyeol", "fashiontrend">>

MarkerAttributes == <<"trenchcoat", "attributes">>

MarkerGender == <<"trenchcoat", "gender">>

MarkerAge == <<"trenchcoat", "agegroup">>

MarkerTrend == <<"shoppingtrend">>

MarkerShopping == <<"navershopping">>

MarkerBlog == <<"blogposts">>

TRENCH == "trenchcoat"

Names ==
  { <<"trenchcoat", "shoppingtrend", "x">>,
    <<"trenchcoat", "navershopping", "x">>,
    <<"omega3", "blogposts", "x">>,
    <<"omega3", "blogposts", "y">>,
    <<"omega3", "shoppingtrend", "navershopping">>,
    <<"jeolgibyeol", "fashiontrend", "x">>,
    <<"trenchcoat", "attributes", "x">>,
    <<"trenchcoat", "gender", "x">>,
    <<"trenchcoat", "gender", "shoppingtrend">>,
    <<"trenchcoat", "agegroup", "x">>,
    <<"memo">> }

Contains(name, marker) ==
  \E i \in 1..(Len(name) - Len(marker) + 1) :
    SubSeq(name, i, i + Len(marker) - 1) = marker

Range(s) == {s[i] : i \in 1..Len(s)}

SpecialSlots == {"seasonal_trend", "trench_attributes", "trench_gender", "trench_age"}

\* the block of ifs of lines 35-46: the slot of the first marker that matches
SpecialSlot(name) ==
  IF Contains(name, MarkerSeasonal) THEN "seasonal_trend"
  ELSE IF Contains(name, MarkerAttributes) THEN "trench_attributes"
  ELSE IF Contains(name, MarkerGender) THEN "trench_gender"
  ELSE IF Contains(name, MarkerAge) THEN "trench_age"
  ELSE ""

\* parts[0] of name.split('_'); a name without underscore is its own first part
Keyword(name) == IF Len(name) = 1 THEN name[1] \o ".csv" ELSE name[1]

Dtype_ShoppingFirst(name) ==
  IF Contains(name, MarkerShopping) THEN "shopping"
  ELSE IF Contains(name, MarkerTrend) THEN "trend"
  ELSE IF Contains(name, MarkerBlog) THEN "blog"
  ELSE ""

\* the if/elif chain of lines 51-57
Dtype(name) ==
  IF Contains(name, MarkerTrend) THEN "trend"
  ELSE IF Contains(name, MarkerShopping) THEN "shopping"
  ELSE IF Contains(name, MarkerBlog) THEN "blog"
  ELSE ""

----------------------------------------------------------------------------
(* Tables *)

\* the value None of lines 24-27
None == [src |-> <<>>, cols |-> {}, keyword |-> ""]

\* the columns section 6 of the input convention gives each kind of file
CsvColumns(name) ==
  LET slot == SpecialSlot(name)
      dtype == Dtype(name)
  IN  IF slot \in {"seasonal_trend", "trench_attributes"} THEN {"period", "ratio", "keyword"}
      ELSE IF slot \in {"trench_gender", "trench_age"} THEN {"group", "ratio"}
      ELSE IF dtype = "trend" THEN {"period", "ratio"}
      ELSE IF dtype = "shopping" THEN {"lprice", "brand", "mallName"}
      ELSE IF dtype = "blog" THEN {"description"}
      ELSE {"col"}

\* pd.read_csv(f) of a parsable file, line 32
read_csv(f) == [src |-> f, cols |-> CsvColumns(f), keyword |-> ""]

\* d[k] = v on a dict
Put(d, k, v) == [x \in (DOMAIN d) \cup {k} |-> IF x = k THEN v ELSE d[x]]

EmptyDict == [x \in {} |-> None]

EmptySpecial == [s \in SpecialSlots |-> None]

----------------------------------------------------------------------------
(* load_all_data, lines 15-64 *)

LoadStart ==
  [main |-> EmptyDict, special |-> EmptySpecial, raised |-> FALSE,
   failed |-> <<>>, nreads |-> 0, stored |-> <<>>]

\* bookkeeping: the current iteration assigned to target t
Assigned(log, t) == [log EXCEPT ![Len(log)] = @ \cup {t}]

\* an insertion that keeps the table already stored under (keyword, dtype)
StoreGeneric_FirstWins(main, keyword, dtype, df) ==
  IF keyword \notin DOMAIN main THEN Put(main, keyword, Put(EmptyDict, dtype, df))
  ELSE IF dtype \in DOMAIN main[keyword] THEN main
  ELSE Put(main, keyword, Put(main[keyword], dtype, df))

\* main_data[keyword][dtype] = df, lines 60-62
StoreGeneric(main, keyword, dtype, df) ==
  IF keyword \notin DOMAIN main THEN Put(main, keyword, Put(EmptyDict, dtype, df))
  ELSE Put(main, keyword, Put(main[keyword], dtype, df))

\* lines 48-62 for one file
Generic(acc, name, df) ==
  LET keyword == Keyword(name)
      dtype == Dtype(name)
  IN  IF dtype # ""
      THEN [acc EXCEPT !.main = StoreGeneric(acc.main, keyword, dtype, df),
                       !.stored = Assigned(@, <<keyword, dtype>>)]
      ELSE acc

\* one iteration of the loop with the `continue` statements missing
ProcessFile_NoContinue(acc, f) ==
  IF content[f] = "bad"
  THEN [acc EXCEPT !.raised = TRUE, !.failed = f, !.nreads = @ + 1]
  ELSE LET df == read_csv(f)
           slot == SpecialSlot(f)
           a0 == [acc EXCEPT !.nreads = @ + 1, !.stored = Append(@, {})]
           a1 == IF slot # ""
                 THEN [a0 EXCEPT !.special[slot] = df,
                                 !.stored = Assigned(@, <<"special", slot>>)]
                 ELSE a0
       IN  Generic(a1, f, df)

\* one iteration that swallows the parse error and goes on with the next file
ProcessFile_SkipBad(acc, f) ==
  IF content[f] = "bad"
  THEN [acc EXCEPT !.nreads = @ + 1, !.stored = Append(@, {})]
  ELSE LET df == read_csv(f)
           slot == SpecialSlot(f)
           a0 == [acc EXCEPT !.nreads = @ + 1, !.stored = Append(@, {})]
       IN  IF slot # ""
           THEN [a0 EXCEPT !.special[slot] = df,
                           !.stored = Assigned(@, <<"special", slot>>)]
           ELSE Generic(a0, f, df)

\* one iteration of the loop, lines 30-62
ProcessFile(acc, f) ==
  IF content[f] = "bad"
  THEN [acc EXCEPT !.raised = TRUE, !.failed = f, !.nreads = @ + 1]
  ELSE LET df == read_csv(f)
           slot == SpecialSlot(f)
           a0 == [acc EXCEPT !.nreads = @ + 1, !.stored = Append(@, {})]
       IN  IF slot # ""
           THEN [a0 EXCEPT !.special[slot] = df,
                           !.stored = Assigned(@, <<"special", slot>>)]
           ELSE Generic(a0, f, df)

RECURSIVE LoadLoop(_, _)
\* the for loop of line 30; an exception leaves it
LoadLoop(acc, fs) ==
  IF fs = <<>> \/ acc.raised THEN acc
  ELSE LoadLoop(ProcessFile(acc, Head(fs)), Tail(fs))

\* the function body, lines 16-64, on the listing glob returned
LoadBody(listing) == LoadLoop(LoadStart, listing)

----------------------------------------------------------------------------
(* extract_keywords_tfidf, lines 66-77.  A document is the sequence of its   *)
(* raw words.  Scores are fixed-point: idf in hundredths, a normalised       *)
(* weight in thousandths.                                                    *)

max_features == 1000

DefaultTopN == 20

\* the terms the model knows, in the sorted order of get_feature_names_out
Lexicon == <<"aa", "bb", "cc", "coat", "fall">>

\* lowercase=True of the vectorizer
Lower(w) == IF w = "BB" THEN "bb" ELSE w

\* token_pattern (?u)\b\w\w+\b: words of two characters or more, lowercased
Tokens(doc) ==
  SelectSeq([i \in 1..Len(doc) |-> Lower(doc[i])], LAMBDA w : Len(w) >= 2)

Count(t, toks) == Cardinality({i \in 1..Len(toks) : toks[i] = t})

RECURSIVE SumTo(_, _)
\* f[1] + ... + f[n]
SumTo(f, n) == IF n = 0 THEN 0 ELSE f[n] + SumTo(f, n - 1)

CorpusCount(t, docs) ==
  SumTo([d \in 1..Len(docs) |-> Count(t, Tokens(docs[d]))], Len(docs))

DocFreq(t, docs) ==
  Cardinality({d \in 1..Len(docs) : Count(t, Tokens(docs[d])) > 0})

LexIndex(t) == CHOOSE i \in 1..Len(Lexicon) : Lexicon[i] = t

\* the fitted vocabulary in feature order: the max_features most frequent terms
Vocabulary(docs) ==
  LET seen(t) == CorpusCount(t, docs) > 0
      ahead(u, t) ==
        \/ CorpusCount(u, docs) > CorpusCount(t, docs)
        \/ CorpusCount(u, docs) = CorpusCount(t, docs) /\ LexIndex(u) < LexIndex(t)
      kept(t) ==
        /\ seen(t)
        /\ Cardinality({u \in Range(Lexicon) : seen(u) /\ ahead(u, t)}) < max_features
  IN  SelectSeq(Lexicon, kept)

\* 100 * ln(k), k = 1..8
Ln100 == <<0, 69, 110, 139, 161, 179, 195, 208>>

\* smooth idf: ln((1 + n) / (1 + df)) + 1
Idf(t, docs) == Ln100[1 + Len(docs)] - Ln100[1 + DocFreq(t, docs)] + 100

Weight(t, doc, docs) == Count(t, Tokens(doc)) * Idf(t, docs)

RECURSIVE IsqrtIn(_, _, _)
\* the largest r in lo..hi with r * r <= x
IsqrtIn(x, lo, hi) ==
  IF lo >= hi THEN lo
  ELSE LET mid == (lo + hi + 1) \div 2
       IN  IF mid * mid <= x THEN IsqrtIn(x, mid, hi) ELSE IsqrtIn(x, lo, mid - 1)

\* the l2 norm of a document's row
Norm(doc, docs) ==
  LET w == [i \in 1..Len(Lexicon) |-> Weight(Lexicon[i], doc, docs)]
      sq == [i \in 1..Len(Lexicon) |-> w[i] * w[i]]
  IN  IsqrtIn(SumTo(sq, Len(Lexicon)), 0, SumTo(w, Len(Lexicon)))

\* tfidf_matrix.sum(axis=0) at the term's column, line 72
Score(t, docs) ==
  SumTo([d \in 1..Len(docs) |->
           LET n == Norm(docs[d], docs)
           IN  IF n = 0 THEN 0 ELSE (Weight(t, docs[d], docs) * 1000) \div n],
        Len(docs))

\* sorted(data, key=lambda x: x[1], reverse=True), line 76: stable
SortedDesc(data) ==
  LET n == Len(data)
      pos(i) == Cardinality({j \in 1..n : data[j][2] > data[i][2]})
                + Cardinality({j \in 1..(i - 1) : data[j][2] = data[i][2]}) + 1
  IN  [p \in 1..n |-> data[CHOOSE i \in 1..n : pos(i) = p]]

Min(a, b) == IF a <= b THEN a ELSE b

\* lines 66-77; fit_transform raises ValueError on an empty vocabulary
extract_keywords_tfidf(docs, n) ==
  IF docs = <<>> THEN [raised |-> FALSE, rows |-> <<>>]
  ELSE LET feature_names == Vocabulary(docs)
           data == [col \in 1..Len(feature_names) |->
                      <<feature_names[col], Score(feature_names[col], docs)>>]
           ranking == SortedDesc(data)
       IN  IF feature_names = <<>>
           THEN [raised |-> TRUE, rows |-> <<>>]
           ELSE [raised |-> FALSE, rows |-> SubSeq(ranking, 1, Min(n, Len(ranking)))]

----------------------------------------------------------------------------
(* The rolling mean of line 106.  A cell is a number or NaN; a mean is kept  *)
(* as the sum of its window, in units of 1/window.                           *)

window == 7

NaN == [nan |-> TRUE, v |-> 0]

Num(n) == [nan |-> FALSE, v |-> n]

\* a rolling mean with min_periods=1
rolling_mean_MinPeriods1(s, w) ==
  [i \in 1..Len(s) |->
     LET lo == IF i - w + 1 < 1 THEN 1 ELSE i - w + 1
         obs == {j \in lo..i : ~s[j].nan}
     IN  IF obs = {} THEN NaN
         ELSE Num(SumTo([j \in 1..i |-> IF j \in obs THEN s[j].v ELSE 0], i))]

\* s.rolling(window=w).mean(): min_periods defaults to the window
rolling_mean(s, w) ==
  [i \in 1..Len(s) |->
     LET lo == IF i - w + 1 < 1 THEN 1 ELSE i - w + 1
         obs == {j \in lo..i : ~s[j].nan}
     IN  IF Cardinality(obs) < w THEN NaN
         ELSE Num(SumTo([j \in 1..i |-> IF j \in obs THEN s[j].v ELSE 0], i))]

----------------------------------------------------------------------------
(* The script, lines 80-304 *)

\* @st.cache_data on a function without arguments, lines 14-15, never memoising
CachedCall_NoMemo(c, listing) ==
  LET r == LoadBody(listing)
  IN  [hit |-> FALSE, out |-> r,
       cache |-> IF r.raised THEN c
                 ELSE [set |-> TRUE, main |-> r.main, special |-> r.special]]

\* @st.cache_data on a function without arguments, lines 14-15: the body runs
\* on a miss, its value is stored unless it raised, and a hit returns the value
CachedCall(c, listing) ==
  IF c.set
  THEN [hit |-> TRUE, cache |-> c,
        out |-> [LoadStart EXCEPT !.main = c.main, !.special = c.special]]
  ELSE LET r == LoadBody(listing)
       IN  [hit |-> FALSE, out |-> r,
            cache |-> IF r.raised THEN c
                      ELSE [set |-> TRUE, main |-> r.main, special |-> r.special]]

NoCache == [set |-> FALSE, main |-> EmptyDict, special |-> EmptySpecial]

\* df = main_data[kw][dtype].copy(); df[c] = ..., lines 102-106 and 154-156
WithColumns(main, kw, dtype, cols, tag) ==
  [main |-> main,
   df |-> [main[kw][dtype] EXCEPT !.cols = @ \cup cols, !.keyword = tag]]

RECURSIVE ViewLoop(_, _, _, _, _)
\* the loops of lines 100-107 and 152-157 over the selected keywords
ViewLoop(main, kws, dtype, cols, list) ==
  IF kws = <<>> THEN [main |-> main, list |-> list]
  ELSE LET kw == Head(kws)
       IN  IF dtype \in DOMAIN main[kw]
           THEN LET r == WithColumns(main, kw, dtype, cols, kw)
                IN  ViewLoop(r.main, Tail(kws), dtype, cols, Append(list, r.df))
           ELSE ViewLoop(main, Tail(kws), dtype, cols, list)

SetToSeq(S) == CHOOSE q \in [1..Cardinality(S) -> S] : Range(q) = S

\* the loop of lines 152-157 run over every loaded keyword
ShoppingFrames_AllKeywords(main, kws) ==
  ViewLoop(main, SetToSeq(DOMAIN main), "shopping", {"keyword", "lprice"}, <<>>)

\* lines 151-157
ShoppingFrames(main, kws) ==
  ViewLoop(main, kws, "shopping", {"keyword", "lprice"}, <<>>)

\* lines 99-107
TrendFrames(main, kws) ==
  ViewLoop(main, kws, "trend", {"keyword", "period", "ma7"}, <<>>)

\* line 197: the description column, markup stripped, NaN filled with ''
Texts(df) ==
  IF content[df.src] = "notext" THEN << <<>>, <<"a">> >>
  ELSE << <<"fall", "coat">>, <<"coat", "aa", "a">> >>

RECURSIVE BlogLoop(_, _)
\* the loop of lines 193-210; a ValueError of the ranker leaves it
BlogLoop(kws, out) ==
  IF kws = <<>> THEN [out |-> out, raised |-> FALSE]
  ELSE LET kw == Head(kws)
       IN  IF "blog" \in DOMAIN main_data[kw]
           THEN LET res == extract_keywords_tfidf(Texts(main_data[kw]["blog"]), DefaultTopN)
                    sub == out \cup {<<"subheader_tfidf", kw>>}
                IN  IF res.raised THEN [out |-> sub, raised |-> TRUE]
                    ELSE IF res.rows # <<>>
                    THEN BlogLoop(Tail(kws), sub \cup {<<"fig_tfidf", kw>>, <<"tfidf_table", kw>>})
                    ELSE BlogLoop(Tail(kws), sub \cup {<<"text_insufficient", kw>>})
           ELSE BlogLoop(Tail(kws), out)

InjSeqs(S, n) ==
  {q \in UNION {[1..k -> S] : k \in 0..n} :
     \A i, j \in 1..Len(q) : i # j => q[i] # q[j]}

Contents(fs) ==
  {c \in [fs -> {"ok", "bad", "notext"}] :
     /\ Cardinality({f \in fs : c[f] # "ok"}) <= MaxBad
     /\ \A f \in fs :
          c[f] = "notext" => SpecialSlot(f) = "" /\ Dtype(f) = "blog"}

NotRun == [done |-> FALSE, raised |-> FALSE, rows |-> <<>>]

IdleTfidf == texts = <<>> /\ top_n = DefaultTopN /\ tfidf_res = NotRun

IdleRolling ==
  /\ trend_ratio = <<>>
  /\ full_trend_ma7 = [done |-> FALSE, rows |-> <<>>]

Init ==
  /\ data_dir \in {d \in SUBSET Names : Cardinality(d) <= MaxFiles}
  /\ content \in Contents(data_dir)
  /\ cache = NoCache
  /\ pc = "start"
  /\ main_data = EmptyDict
  /\ special_data = EmptySpecial
  /\ files = <<>>
  /\ stored = <<>>
  /\ failed = <<>>
  /\ nreads = 0
  /\ selected_keywords = <<>>
  /\ shopping_dfs = <<>>
  /\ rendered = {}
  /\ error = "none"
  /\ first_result = NoCache
  /\ IdleTfidf
  /\ IdleRolling

\* line 80; glob lists the directory in an order of the file system's choosing
load_all_data ==
  /\ pc = "start"
  /\ \E listing \in InjSeqs(data_dir, Cardinality(data_dir)) :
       /\ Len(listing) = Cardinality(data_dir)
       /\ LET c == CachedCall(cache, listing)
          IN  /\ cache' = c.cache
              /\ nreads' = c.out.nreads
              /\ failed' = c.out.failed
              /\ files' = IF c.hit THEN <<>> ELSE listing
              /\ stored' = c.out.stored
              /\ IF c.out.raised
                 THEN /\ pc' = "error"
                      /\ error' = "ParserError"
                      /\ UNCHANGED <<main_data, special_data, first_result>>
                 ELSE /\ pc' = "sidebar"
                      /\ main_data' = c.out.main
                      /\ special_data' = c.out.special
                      /\ first_result' =
                           IF first_result.set THEN first_result
                           ELSE [set |-> TRUE, main |-> c.out.main,
                                 special |-> c.out.special]
                      /\ UNCHANGED error
  /\ UNCHANGED <<data_dir, content, selected_keywords, shopping_dfs, rendered,
                 tfidfVars, rollVars>>

\* lines 81-93: the multiselect over all_keywords, then the empty-selection
\* guard; the locals of the call of line 80 are gone
Sidebar ==
  /\ pc = "sidebar"
  /\ \E sel \in InjSeqs(DOMAIN main_data, Cardinality(DOMAIN main_data)) :
       /\ selected_keywords' = sel
       /\ IF sel = <<>>
          THEN pc' = "done" /\ rendered' = {<<"warning_select", "">>}
          ELSE pc' = "tab1" /\ rendered' = {}
  /\ files' = <<>>
  /\ stored' = <<>>
  /\ nreads' = 0
  /\ UNCHANGED <<data_dir, content, cache, main_data, special_data, failed,
                 shopping_dfs, error, first_result, tfidfVars, rollVars>>

\* lines 96-145
Tab1 ==
  /\ pc = "tab1"
  /\ LET r == TrendFrames(main_data, selected_keywords)
     IN  /\ main_data' = r.main
         /\ rendered' = rendered \cup
              (IF r.list # <<>>
               THEN {<<"fig_trend", "">>, <<"fig_ma", "">>, <<"trend_summary", "">>}
                    \cup (IF special_data["seasonal_trend"] # None
                          THEN {<<"fig_sea", "">>} ELSE {})
               ELSE {<<"info_trend", "">>})
  /\ pc' = "tab2"
  /\ UNCHANGED <<data_dir, content, cache, special_data, files, stored, failed,
                 nreads, selected_keywords, shopping_dfs, error, first_result,
                 tfidfVars, rollVars>>

\* lines 148-187
Tab2 ==
  /\ pc = "tab2"
  /\ LET r == ShoppingFrames(main_data, selected_keywords)
     IN  /\ main_data' = r.main
         /\ shopping_dfs' = r.list
         /\ rendered' = rendered \cup
              (IF r.list # <<>>
               THEN {<<"fig_hist", "">>, <<"price_describe", "">>,
                     <<"fig_brand", "">>, <<"mall_stats", "">>}
               ELSE {<<"info_shopping", "">>})
  /\ pc' = "tab3"
  /\ UNCHANGED <<data_dir, content, cache, special_data, files, stored, failed,
                 nreads, selected_keywords, error, first_result,
                 tfidfVars, rollVars>>

\* lines 190-210
Tab3 ==
  /\ pc = "tab3"
  /\ LET r == BlogLoop(selected_keywords, rendered)
     IN  /\ rendered' = r.out
         /\ IF r.raised
            THEN pc' = "error" /\ error' = "ValueError"
            ELSE pc' = "tab4" /\ UNCHANGED error
  /\ UNCHANGED <<data_dir, content, cache, main_data, special_data, files, stored,
                 failed, nreads, selected_keywords, shopping_dfs, first_result,
                 tfidfVars, rollVars>>

\* lines 213-252; None has no groupby, line 233
Tab4 ==
  /\ pc = "tab4"
  /\ IF special_data["trench_gender"] # None /\ TRENCH \in Range(selected_keywords)
     THEN IF special_data["trench_age"] = None
          THEN /\ rendered' = rendered \cup {<<"fig_g", "">>}
               /\ pc' = "error"
               /\ error' = "AttributeError"
          ELSE /\ rendered' = rendered \cup
                    {<<"fig_g", "">>, <<"fig_a", "">>, <<"demographics_tables", "">>}
               /\ pc' = "tab5"
               /\ UNCHANGED error
     ELSE /\ rendered' = rendered \cup
               (IF TRENCH \notin Range(selected_keywords)
                THEN {<<"info_select_trench", "">>}
                ELSE {<<"info_demographics", "">>})
          /\ pc' = "tab5"
          /\ UNCHANGED error
  /\ UNCHANGED <<data_dir, content, cache, main_data, special_data, files, stored,
                 failed, nreads, selected_keywords, shopping_dfs, first_result,
                 tfidfVars, rollVars>>

\* lines 255-279
Tab5 ==
  /\ pc = "tab5"
  /\ rendered' = rendered
       \cup (IF special_data["trench_attributes"] # None
                /\ TRENCH \in Range(selected_keywords)
             THEN {<<"fig_attr", "">>}
                  \cup (IF shopping_dfs # <<>> THEN {<<"fig_box", "">>} ELSE {})
             ELSE {})
       \cup {<<"raw_preview", kw>> : kw \in Range(selected_keywords)}
  /\ pc' = "tab6"
  /\ UNCHANGED <<data_dir, content, cache, main_data, special_data, files, stored,
                 failed, nreads, selected_keywords, shopping_dfs, error,
                 first_result, tfidfVars, rollVars>>

\* lines 282-301
Tab6 ==
  /\ pc = "tab6"
  /\ rendered' = rendered \cup {<<"deck", "">>}
  /\ pc' = "done"
  /\ UNCHANGED <<data_dir, content, cache, main_data, special_data, files, stored,
                 failed, nreads, selected_keywords, shopping_dfs, error,
                 first_result, tfidfVars, rollVars>>

\* a widget interaction or a reload starts the script again with fresh globals
Rerun ==
  /\ pc \in {"done", "error"}
  /\ pc' = "start"
  /\ main_data' = EmptyDict
  /\ special_data' = EmptySpecial
  /\ selected_keywords' = <<>>
  /\ shopping_dfs' = <<>>
  /\ rendered' = {}
  /\ error' = "none"
  /\ files' = <<>>
  /\ stored' = <<>>
  /\ failed' = <<>>
  /\ nreads' = 0
  /\ UNCHANGED <<data_dir, content, cache, first_result, tfidfVars, rollVars>>

\* between two runs a file of DATA_DIR is deleted
RemoveFile ==
  /\ pc \in {"done", "error"}
  /\ \E f \in data_dir : data_dir' = data_dir \ {f}
  /\ UNCHANGED <<content, cache, pc, main_data, special_data, files, stored,
                 failed, nreads, selected_keywords, shopping_dfs, rendered, error,
                 first_result, tfidfVars, rollVars>>

Next ==
  \/ load_all_data
  \/ Sidebar
  \/ Tab1
  \/ Tab2
  \/ Tab3
  \/ Tab4
  \/ Tab5
  \/ Tab6
  \/ Rerun
  \/ RemoveFile

Spec == Init /\ [][Next]_vars

----------------------------------------------------------------------------
(* extract_keywords_tfidf on its own *)

IdleDash ==
  /\ data_dir = {}
  /\ content = <<>>
  /\ cache = NoCache
  /\ pc = "start"
  /\ main_data = EmptyDict
  /\ special_data = EmptySpecial
  /\ files = <<>>
  /\ stored = <<>>
  /\ failed = <<>>
  /\ nreads = 0
  /\ selected_keywords = <<>>
  /\ shopping_dfs = <<>>
  /\ rendered = {}
  /\ error = "none"
  /\ first_result = NoCache

Documents ==
  { <<>>,
    <<"a", "b", "b">>,
    <<"b", "c", "c", "c">>,
    <<"aa", "bb", "bb">>,
    <<"bb", "cc", "cc", "cc">>,
    <<"BB", "a">>,
    <<"cc">> }

TopNs == {1, 2, DefaultTopN}

InitTfidf ==
  /\ texts \in UNION {[1..k -> Documents] : k \in 0..MaxDocs}
  /\ top_n \in TopNs
  /\ tfidf_res = NotRun
  /\ IdleDash
  /\ IdleRolling

\* a call extract_keywords_tfidf(texts, top_n)
Rank ==
  /\ ~tfidf_res.done
  /\ LET r == extract_keywords_tfidf(texts, top_n)
     IN  tfidf_res' = [done |-> TRUE, raised |-> r.raised, rows |-> r.rows]
  /\ UNCHANGED <<texts, top_n, dashVars, rollVars>>

NextTfidf == Rank

SpecTfidf == InitTfidf /\ [][NextTfidf]_vars

----------------------------------------------------------------------------
(* The moving average of the trend view, lines 99-110, on concrete series *)

RollKeywords == <<"omega3", "trenchcoat">>

Ratios == {NaN, Num(1)}

Series(n) == UNION {[1..k -> Ratios] : k \in 0..n}

RollNotRun == [done |-> FALSE, rows |-> <<>>]

InitRolling ==
  /\ trend_ratio \in {[k \in Range(RollKeywords) |->
                         IF k = RollKeywords[1] THEN a ELSE b] :
                        a \in Series(MaxLen), b \in Series(MaxLen2)}
  /\ full_trend_ma7 = RollNotRun
  /\ IdleDash
  /\ IdleTfidf

RECURSIVE Ma7Rows(_, _)
\* lines 100-110: each keyword's ma7 is computed on its own frame, then the
\* frames are concatenated
Ma7Rows(ratio, kws) ==
  IF kws = <<>> THEN <<>>
  ELSE LET kw == Head(kws)
           ma7 == rolling_mean(ratio[kw], window)
       IN  [i \in 1..Len(ma7) |-> [keyword |-> kw, pos |-> i, ma7 |-> ma7[i]]]
           \o Ma7Rows(ratio, Tail(kws))

\* lines 99-110 with every keyword selected
Tab1Rolling ==
  /\ ~full_trend_ma7.done
  /\ full_trend_ma7' = [done |-> TRUE, rows |-> Ma7Rows(trend_ratio, RollKeywords)]
  /\ UNCHANGED <<trend_ratio, dashVars, tfidfVars>>

NextRolling == Tab1Rolling

SpecRolling == InitRolling /\ [][NextRolling]_vars

----------------------------------------------------------------------------
(* Properties *)

HasSpecialMarker(name) ==
  \/ Contains(name, <<"jeolgibyeol", "fashiontrend">>)
  \/ Contains(name, <<"trenchcoat", "attributes">>)
  \/ Contains(name, <<"trenchcoat", "gender">>)
  \/ Contains(name, <<"trenchcoat", "agegroup">>)

ExpectedCategory(name) ==
  IF Contains(name, <<"shoppingtrend">>) THEN "trend"
  ELSE IF Contains(name, <<"navershopping">>) THEN "shopping"
  ELSE IF Contains(name, <<"blogposts">>) THEN "blog"
  ELSE ""

FirstPart(name) == IF Len(name) = 1 THEN name[1] \o ".csv" ELSE name[1]

Unrecognised(name) == ~HasSpecialMarker(name) /\ ExpectedCategory(name) = ""

SpecialTargets == {<<"special", sl>> : sl \in SpecialSlots}

TablesOf(main) ==
  UNION {{<<k, d, main[k][d].src>> : d \in DOMAIN main[k]} : k \in DOMAIN main}

\* C1: every file the loop processed was assigned to at most one target (one
\* special slot, one (keyword, category) pair, or nothing), and a file whose
\* name holds a special marker went to a special slot and is the source of no
\* table of the keyword map, whatever generic marker its name also holds.
C1_Classification ==
  /\ \A i \in 1..Len(stored) :
       /\ Cardinality(stored[i]) <= 1
       /\ HasSpecialMarker(files[i]) =>
            stored[i] # {} /\ stored[i] \subseteq SpecialTargets
       /\ ~HasSpecialMarker(files[i]) => stored[i] \cap SpecialTargets = {}
  /\ \A t \in TablesOf(main_data) \cup TablesOf(cache.main) : ~HasSpecialMarker(t[3])

C1_Witness ==
  /\ pc = "sidebar"
  /\ \E i \in 1..Len(stored) :
       /\ files[i] = <<"trenchcoat", "gender", "shoppingtrend">>
       /\ stored[i] = {<<"special", "trench_gender">>}
  /\ special_data["trench_gender"].src = <<"trenchcoat", "gender", "shoppingtrend">>

\* C2: a file without special marker is assigned under keyword = the first
\* underscore-separated part of its name and category = trend, else shopping,
\* else blog, by the first marker its name holds in that order (to nothing if it
\* holds none); every table of the keyword map sits under the pair its own
\* file name gives, whatever the other files and the enumeration order.
C2_GenericAssignment ==
  /\ \A i \in 1..Len(stored) :
       ~HasSpecialMarker(files[i]) =>
         stored[i] = IF ExpectedCategory(files[i]) = "" THEN {}
                     ELSE {<<FirstPart(files[i]), ExpectedCategory(files[i])>>}
  /\ \A t \in TablesOf(main_data) \cup TablesOf(cache.main) :
       t[1] = FirstPart(t[3]) /\ t[2] = ExpectedCategory(t[3])

C2_Witness ==
  /\ pc = "sidebar"
  /\ \E i \in 1..Len(stored) :
       /\ files[i] = <<"omega3", "shoppingtrend", "navershopping">>
       /\ stored[i] = {<<"omega3", "trend">>}
  /\ <<"omega3", "trend", <<"omega3", "shoppingtrend", "navershopping">>>>
       \in TablesOf(main_data)

\* C3: a file whose name holds none of the seven markers never makes the load
\* raise, whatever its content, and is assigned to nothing.
C3_UnrecognisedNeverRaises ==
  /\ error = "ParserError" => ~Unrecognised(failed)
  /\ \A i \in 1..Len(stored) : Unrecognised(files[i]) => stored[i] = {}

\* C4: a load that has to parse an unparsable classified file ends the run
\* with the parse error: nothing is cached, the script's maps stay unassigned
\* and no view is rendered, also when files were parsed before the failure.
C4_LoadAborts ==
  [][/\ (/\ pc = "start"
         /\ ~cache.set
         /\ \E f \in data_dir : content[f] = "bad" /\ ~Unrecognised(f))
        => (pc' = "error" /\ error' = "ParserError")
     /\ (pc' = "error" /\ error' = "ParserError")
        => /\ ~cache'.set
           /\ main_data' = EmptyDict
           /\ special_data' = EmptySpecial
           /\ selected_keywords' = <<>>
           /\ rendered' = {}]_vars

C4_Witness ==
  /\ pc = "error"
  /\ error = "ParserError"
  /\ ~Unrecognised(failed)
  /\ Len(stored) >= 1
  /\ stored[1] # {}
  /\ ~cache.set
  /\ main_data = EmptyDict
  /\ rendered = {}

Tabs == {"tab1", "tab2", "tab3", "tab4", "tab5", "tab6"}

\* C5: once load_all_data has returned, every later invocation returns the
\* maps of the first result and reads no file, whatever became of the
\* directory; the cache entry never changes, and no step of the views changes
\* the maps the invocation returned.
C5_CachedSession ==
  [][/\ (pc = "start" /\ first_result.set)
        => /\ pc' = "sidebar"
           /\ main_data' = first_result.main
           /\ special_data' = first_result.special
           /\ nreads' = 0
     /\ cache.set => cache' = cache
     /\ pc \in Tabs \cup {"sidebar"}
        => /\ cache' = cache
           /\ main_data' = main_data
           /\ special_data' = special_data]_vars

C5_Witness ==
  /\ pc = "sidebar"
  /\ nreads = 0
  /\ files = <<>>
  /\ main_data = first_result.main
  /\ \E t \in TablesOf(main_data) : t[3] \notin data_dir

\* C6: whatever tables are absent, no view raises for want of a table: a view
\* whose sub-table or special slot is absent shows a placeholder or nothing,
\* the demographics view included when the trench-coat keyword is selected
\* and only one of the gender and age slots is populated.
C6_NoAbsentTableError ==
  /\ error # "AttributeError"
  /\ (/\ pc \in {"tab5", "tab6", "done"}
      /\ TRENCH \in Range(selected_keywords)
      /\ \/ special_data["trench_gender"] = None
         \/ special_data["trench_age"] = None)
     => <<"info_demographics", "">> \in rendered

Tab2Ran ==
  \/ pc \in {"tab3", "tab4", "tab5", "tab6", "done"} /\ selected_keywords # <<>>
  \/ pc = "error" /\ error \in {"ValueError", "AttributeError"}

OwnsShopping ==
  {kw \in Range(selected_keywords) : "shopping" \in DOMAIN main_data[kw]}

BlogOnly == {kw \in Range(selected_keywords) : DOMAIN main_data[kw] = {"blog"}}

ShoppingAggregations ==
  {<<"fig_hist", "">>, <<"price_describe", "">>, <<"fig_brand", "">>,
   <<"mall_stats", "">>}

ShoppingInput ==
  {<<shopping_dfs[i].keyword, shopping_dfs[i].src>> : i \in 1..Len(shopping_dfs)}

\* C7 as claimed: the shopping aggregations hold the rows of exactly the
\* selected keywords that own a shopping table, and for each selected keyword
\* that has only a blog table the 'no shopping data' placeholder is rendered.
C7_Original ==
  Tab2Ran =>
    /\ {t[1] : t \in ShoppingInput} = OwnsShopping
    /\ \A kw \in BlogOnly :
         /\ kw \notin {t[1] : t \in ShoppingInput}
         /\ <<"info_shopping", "">> \in rendered

\* C7 amended: the shopping aggregations (the four of the shopping view and
\* the box plot of the deep-analysis view) are computed from the concatenation
\* of the shopping tables of exactly the selected keywords that own one, each
\* tagged with its keyword, so a blog-only keyword contributes no row; the
\* 'no shopping data' placeholder is rendered exactly when no selected keyword
\* owns a shopping table, and the aggregations exactly otherwise.
C7_ShoppingAggregations ==
  Tab2Ran =>
    /\ ShoppingInput = {<<kw, main_data[kw]["shopping"].src>> : kw \in OwnsShopping}
    /\ Len(shopping_dfs) = Cardinality(OwnsShopping)
    /\ \A kw \in BlogOnly : kw \notin {t[1] : t \in ShoppingInput}
    /\ <<"info_shopping", "">> \in rendered <=> OwnsShopping = {}
    /\ \A a \in ShoppingAggregations : a \in rendered <=> OwnsShopping # {}
    /\ <<"fig_box", "">> \in rendered => OwnsShopping # {}

C7_Witness ==
  /\ pc = "done"
  /\ BlogOnly # {}
  /\ OwnsShopping # {}
  /\ <<"fig_hist", "">> \in rendered
  /\ <<"info_shopping", "">> \notin rendered

\* C8: extract_keywords_tfidf never raises; an empty sequence gives an empty
\* result, fewer than two distinct terms give at most one row, otherwise
\* min(top_n, vocabulary size) rows with non-increasing scores, equal scores
\* in vocabulary order; rank(["a b b", "b c c c"], 2) gives exactly 2 rows.
C8_NeverRaises ==
  tfidf_res.done =>
    LET rows == tfidf_res.rows
        nterms == Len(Vocabulary(texts))
    IN  /\ ~tfidf_res.raised
        /\ texts = <<>> => rows = <<>>
        /\ nterms < 2 => Len(rows) <= 1
        /\ nterms >= 2 => Len(rows) = Min(top_n, nterms)
        /\ \A i, j \in 1..Len(rows) :
             i < j => \/ rows[i][2] > rows[j][2]
                      \/ /\ rows[i][2] = rows[j][2]
                         /\ LexIndex(rows[i][1]) < LexIndex(rows[j][1])
        /\ (texts = << <<"a", "b", "b">>, <<"b", "c", "c", "c">> >> /\ top_n = 2)
           => Len(rows) = 2

\* C9: in the ma7 column of the trend view, position i of a keyword's series
\* is defined exactly when i >= 7 and the 7 ratios of that keyword ending at i
\* are defined, and is then their mean; a series shorter than 7 has no
\* defined position.
C9_RollingMean ==
  full_trend_ma7.done =>
    /\ Len(full_trend_ma7.rows) =
         Len(trend_ratio["omega3"]) + Len(trend_ratio["trenchcoat"])
    /\ \A r \in 1..Len(full_trend_ma7.rows) :
         LET row == full_trend_ma7.rows[r]
             ratio == trend_ratio[row.keyword]
             i == row.pos
             full == i >= 7 /\ \A j \in (i - 6)..i : ~ratio[j].nan
         IN  /\ i \in 1..Len(ratio)
             /\ row.ma7.nan <=> ~full
             /\ full => row.ma7.v = SumTo([j \in 1..i |-> IF j >= i - 6 THEN ratio[j].v ELSE 0], i)
             /\ Len(ratio) < 7 => row.ma7.nan
    /\ \A kw \in DOMAIN trend_ratio : \A i \in 1..Len(trend_ratio[kw]) :
         \E r \in 1..Len(full_trend_ma7.rows) :
           full_trend_ma7.rows[r].keyword = kw /\ full_trend_ma7.rows[r].pos = i

C9_Witness ==
  /\ full_trend_ma7.done
  /\ Len(trend_ratio["omega3"]) = 8
  /\ trend_ratio["omega3"][1].nan
  /\ Len(trend_ratio["trenchcoat"]) = 1
  /\ ~trend_ratio["trenchcoat"][1].nan
  /\ full_trend_ma7.rows[7].ma7.nan
  /\ ~full_trend_ma7.rows[8].ma7.nan
  /\ full_trend_ma7.rows[9].ma7.nan

Target(f) ==
  IF SpecialSlot(f) # "" THEN <<"special", SpecialSlot(f)>>
  ELSE IF Dtype(f) # "" THEN <<Keyword(f), Dtype(f)>>
  ELSE <<"", "">>

LastOf(fs, t) ==
  LET idx == {i \in 1..Len(fs) : Target(fs[i]) = t}
  IN  IF idx = {} THEN None
      ELSE read_csv(fs[CHOOSE i \in idx : \A j \in idx : j <= i])

NoSharedTarget(fs) ==
  \A i, j \in 1..Len(fs) :
    (i # j /\ Target(fs[i]) = Target(fs[j])) => Target(fs[i]) = <<"", "">>

\* C10: after a load, each (keyword, category) pair and each special slot
\* holds the table of the last-enumerated file that classifies to it and
\* nothing else is held; when no two files classify to the same target, every
\* enumeration order of the directory gives the same two maps.
C10_LastEnumeratedWins ==
  (pc = "sidebar" /\ files # <<>>) =>
    /\ \A sl \in SpecialSlots :
         special_data[sl] = LastOf(files, <<"special", sl>>)
    /\ \A i \in 1..Len(files) :
         LET t == Target(files[i])
         IN  (t # <<"", "">> /\ t[1] # "special") =>
               /\ t[1] \in DOMAIN main_data
               /\ t[2] \in DOMAIN main_data[t[1]]
               /\ main_data[t[1]][t[2]] = LastOf(files, t)
    /\ \A t \in TablesOf(main_data) :
         \E i \in 1..Len(files) : Target(files[i]) = <<t[1], t[2]>>
    /\ NoSharedTarget(files) =>
         \A p \in InjSeqs(Range(files), Len(files)) :
           Len(p) = Len(files) =>
             /\ LoadBody(p).main = main_data
             /\ LoadBody(p).special = special_data

C10_Witness ==
  /\ pc = "sidebar"
  /\ files = << <<"omega3", "blogposts", "x">>, <<"omega3", "blogposts", "y">> >>
  /\ main_data["omega3"]["blog"].src = <<"omega3", "blogposts", "y">>

====
